---- MODULE Spec2Model ----
(***************************************************************************)
(* Task Management API (src/main.py): the users and tasks tables, the      *)
(* signed bearer tokens, and the request handlers as processes that take   *)
(* one step per database statement, so that concurrent requests interleave *)
(* between statements exactly where the code lets them.                    *)
(*                                                                         *)
(* Every handler runs on its own psycopg2 connection.  A statement and the *)
(* conn.commit() that follows it are one step: under READ COMMITTED no     *)
(* other connection sees the uncommitted row, and a writer that meets it   *)
(* waits for the commit, so the outcome is that of the statement running   *)
(* after the commit.                                                       *)
(***************************************************************************)
EXTENDS Integers, Sequences, FiniteSets, TLC

VARIABLES users, user_seq, tasks, task_seq, tokens, now, ticks, nreq, proc

vars == <<users, user_seq, tasks, task_seq, tokens, now, ticks, nreq, proc>>

(* ------------------------------ bounds -------------------------------- *)

\* the clock advances at most this many times
MaxTicks == 2
\* at most this many values are drawn from the users_id_seq sequence
MaxUserSeq == 3
\* at most this many successful logins issue tokens
MaxLogins == 1
\* at most this many values are drawn from the tasks_id_seq sequence
MaxTasks == 2
\* at most this many task requests are started
MaxRequests == 2
\* clock resolution: ticks per second (a JWT "exp" claim holds whole seconds)
TicksPerSecond == 2

\* concurrent requests in flight
Workers == {"w1", "w2"}

(* ------------------------- program constants -------------------------- *)

SECRET_KEY == "your-secret-key-here-change-in-production"
ACCESS_TOKEN_EXPIRE_MINUTES == 30
REFRESH_TOKEN_EXPIRE_DAYS == 7

\* timedelta(minutes=m), timedelta(days=d) in clock ticks
Minutes(m) == m * 60 * TicksPerSecond
Days(d) == d * 24 * 60 * 60 * TicksPerSecond

(* ------------------------------ values -------------------------------- *)

\* A JSON / Python / SQL value: a key missing from a request body, null
\* (None, NULL), or a value.
Absent == [k |-> "absent"]
None == [k |-> "null"]
Some(x) == [k |-> "some", v |-> x]

\* the inputs requests are drawn from
Emails == {"a@x.io", "b@x.io"}
Usernames == {"ann", "bob"}
Passwords == {"pw1"}
\* what a login may present
LoginPasswords == Passwords \cup {"wrong"}

\* pwd_context.hash / pwd_context.verify: verification succeeds exactly
\* for the password that was hashed
get_password_hash(password) == <<"bcrypt", password>>
verify_password(plain_password, hashed_password) ==
    hashed_password = get_password_hash(plain_password)

(* ------------------------------ tokens -------------------------------- *)

\* jwt.encode: a datetime "exp" is stored as whole seconds since the epoch
\* (the fraction is dropped); the token is signed with the key.
JwtEncode(payload, key) ==
    [sub |-> payload.sub,
     exp |-> (payload.exp \div TicksPerSecond) * TicksPerSecond,
     sig |-> key]

\* jwt.decode without the expiry check
JwtDecodeNoExpiry(token, key, t) ==
    IF token.sig # key THEN None
    ELSE Some([sub |-> token.sub, exp |-> token.exp])

\* jwt.decode: the signature must be the key's and "exp" must lie in the
\* future (exp <= now raises ExpiredSignatureError); any PyJWTError is None.
JwtDecode(token, key, t) ==
    IF token.sig # key THEN None
    ELSE IF token.exp <= t THEN None
    ELSE Some([sub |-> token.sub, exp |-> token.exp])

create_access_token(data, expires_delta, t) ==
    JwtEncode([sub |-> data.sub, exp |-> t + expires_delta], SECRET_KEY)

create_refresh_token(data, t) ==
    JwtEncode([sub |-> data.sub, exp |-> t + Days(REFRESH_TOKEN_EXPIRE_DAYS)],
              SECRET_KEY)

\* a token signed with another key, as any client can make
ForgedTokens == {[sub |-> 1, exp |-> Days(2 * REFRESH_TOKEN_EXPIRE_DAYS),
                  sig |-> "some-other-key"]}

\* get_current_user: the user row of the token's subject, or None (401)
GetCurrentUser(token, t) ==
    LET payload == JwtDecode(token, SECRET_KEY, t)
    IN  IF payload = None THEN None
        ELSE LET rows == {u \in users : u.id = payload.v.sub}
             IN  IF rows = {} THEN None
                 ELSE Some(CHOOSE u \in rows : TRUE)

(* --------------------------- users table ------------------------------ *)

\* a users table without the UNIQUE constraints
NoUniqueConstraint(email, username) == FALSE

\* email VARCHAR(255) UNIQUE, username VARCHAR(100) UNIQUE: an INSERT of a
\* row whose email or username is in the table raises UniqueViolation
UniqueViolation(email, username) ==
    \E u \in users : u.email = email \/ u.username = username

\* SELECT id FROM users WHERE email = %s OR username = %s
UserExists(email, username) ==
    \E u \in users : u.email = email \/ u.username = username

\* response_model=User: the row without its password hash
UserOut(u) == [id |-> u.id, email |-> u.email, username |-> u.username]

(* ----------------------------- requests ------------------------------- *)

NoResp == [code |-> 0]
Idle == [pc |-> "idle", op |-> "none", args |-> None, user |-> None,
         txn |-> None, resp |-> NoResp, open |-> 0]

\* the worker can take a new request
Free(w) == proc[w].pc \in {"idle", "done"}

InFlight(op) ==
    Cardinality({w \in Workers : ~Free(w) /\ proc[w].op = op})

Http401 == [code |-> 401, detail |-> "Could not validate credentials"]
Http404 == [code |-> 404, detail |-> "Task not found"]
\* an exception no handler catches, or a return value the response model
\* rejects: the framework answers 500
Http500 == [code |-> 500, detail |-> "Internal Server Error"]

\* a request in flight, about to run the statement at pc with `open`
\* connections open
Running(op, args, user, pc, open) ==
    [pc |-> pc, op |-> op, args |-> args, user |-> user, txn |-> None,
     resp |-> NoResp, open |-> open]

\* a request that has ended with its response, `open` connections open
Ended(op, args, user, resp, open) ==
    [pc |-> "done", op |-> op, args |-> args, user |-> user, txn |-> None,
     resp |-> resp, open |-> open]

\* the request of worker w ends
End(w, resp, open) ==
    proc' = [proc EXCEPT ![w].pc = "done", ![w].txn = None,
                         ![w].resp = resp, ![w].open = open]

(* ----------------------------- the clock ------------------------------ *)

Tick ==
    /\ ticks < MaxTicks
    /\ now' = now + 1
    /\ ticks' = ticks + 1
    /\ UNCHANGED <<users, user_seq, tasks, task_seq, tokens, nreq, proc>>

\* a token lifetime passes
Elapse ==
    /\ ticks < MaxTicks
    /\ \E d \in {Minutes(ACCESS_TOKEN_EXPIRE_MINUTES),
                 Days(REFRESH_TOKEN_EXPIRE_DAYS)} : now' = now + d
    /\ ticks' = ticks + 1
    /\ UNCHANGED <<users, user_seq, tasks, task_seq, tokens, nreq, proc>>

(* ------------------------------ register ------------------------------ *)

\* POST /register: get_db_connection() and the existence check, 400 if a
\* row has the email or the username
Register(w) ==
    /\ Free(w)
    /\ user_seq + InFlight("register") <= MaxUserSeq
    /\ \E e \in Emails, n \in Usernames, p \in Passwords :
         LET args == [email |-> e, username |-> n, password |-> p]
         IN  proc' = [proc EXCEPT ![w] =
                 IF UserExists(e, n)
                 THEN Ended("register", args, None,
                            [code |-> 400,
                             detail |-> "Email or username already registered"],
                            0)
                 ELSE Running("register", args, None, "insert", 1)]
    /\ UNCHANGED <<users, user_seq, tasks, task_seq, tokens, now, ticks, nreq>>

\* INSERT INTO users ... RETURNING *; commit; close.  The id is drawn from
\* the sequence before the constraint is checked.  A UniqueViolation is
\* caught nowhere: the request ends in a server error, and neither
\* cur.close() nor conn.close() has run.
RegisterInsert(w) ==
    /\ proc[w].pc = "insert"
    /\ user_seq' = user_seq + 1
    /\ LET a == proc[w].args
           row == [id |-> user_seq, email |-> a.email,
                   username |-> a.username,
                   hashed_password |-> get_password_hash(a.password)]
       IN  IF UniqueViolation(a.email, a.username)
           THEN /\ users' = users
                /\ End(w, Http500, proc[w].open)
           ELSE /\ users' = users \cup {row}
                /\ End(w, [code |-> 201, body |-> UserOut(row)], 0)
    /\ UNCHANGED <<tasks, task_seq, tokens, now, ticks, nreq>>

(* ------------------------------- login -------------------------------- *)

\* POST /token: SELECT * FROM users WHERE username = %s; close; verify the
\* password; issue the access and the refresh token
Login(w) ==
    /\ Free(w)
    /\ Cardinality(tokens) + 2 <= 2 * MaxLogins
    /\ \E n \in Usernames, p \in LoginPasswords :
         LET args == [username |-> n, password |-> p]
             rows == {u \in users : u.username = n}
         IN  IF rows = {} \/ \A u \in rows :
                               ~verify_password(p, u.hashed_password)
             THEN /\ tokens' = tokens
                  /\ proc' = [proc EXCEPT ![w] =
                        Ended("login", args, None,
                              [code |-> 401,
                               detail |-> "Incorrect username or password"],
                              0)]
             ELSE LET user == CHOOSE u \in rows : TRUE
                      access_token ==
                          create_access_token([sub |-> user.id],
                              Minutes(ACCESS_TOKEN_EXPIRE_MINUTES), now)
                      refresh_token ==
                          create_refresh_token([sub |-> user.id], now)
                  IN  /\ tokens' = tokens \cup {access_token, refresh_token}
                      /\ proc' = [proc EXCEPT ![w] =
                            Ended("login", args, None,
                                  [code |-> 200,
                                   body |-> [access_token |-> access_token,
                                             refresh_token |-> refresh_token,
                                             token_type |-> "bearer"]], 0)]
    /\ UNCHANGED <<users, user_seq, tasks, task_seq, now, ticks, nreq>>

(* --------------------------- authentication --------------------------- *)

\* the first statement of each authenticated handler
FirstStep(op) == IF op = "update_task" THEN "select" ELSE "exec"

\* Depends(get_current_user) on a request with bearer token tok: decode
\* the token, SELECT the user on a connection of its own and close it;
\* 401 if either fails, else the handler runs as that user
Authenticate(w, op, args, tok) ==
    LET user == GetCurrentUser(tok, now)
        a == [token |-> tok] @@ args
    IN  proc' = [proc EXCEPT ![w] =
            IF user = None THEN Ended(op, a, None, Http401, 0)
            ELSE Running(op, a, user, FirstStep(op), 0)]

\* GET /users/me with a bearer token a client holds or has made up:
\* read_users_me returns the user as it is
ReadUsersMe(w) ==
    /\ Free(w)
    /\ \E tok \in tokens \cup ForgedTokens :
         LET user == GetCurrentUser(tok, now)
         IN  proc' = [proc EXCEPT ![w] =
                 IF user = None
                 THEN Ended("me", [token |-> tok], None, Http401, 0)
                 ELSE Ended("me", [token |-> tok], user,
                            [code |-> 200, body |-> UserOut(user.v)], 0)]
    /\ UNCHANGED <<users, user_seq, tasks, task_seq, tokens, now, ticks, nreq>>

(* ---------------------------- registration ---------------------------- *)

InitReg ==
    /\ users = {}
    /\ user_seq = 1
    /\ tasks = {}
    /\ task_seq = 1
    /\ tokens = {}
    /\ now = 0
    /\ ticks = 0
    /\ nreq = 0
    /\ proc = [w \in Workers |-> Idle]

NextReg ==
    \E w \in Workers :
      \/ Register(w)
      \/ RegisterInsert(w)

SpecReg == InitReg /\ [][NextReg]_vars

(* ------------------------ login and the tokens ------------------------ *)

\* the users table after ann and bob have registered
RegisteredUsers ==
    {[id |-> 1, email |-> "a@x.io", username |-> "ann",
      hashed_password |-> get_password_hash("pw1")],
     [id |-> 2, email |-> "b@x.io", username |-> "bob",
      hashed_password |-> get_password_hash("pw1")]}

InitTok ==
    /\ users = RegisteredUsers
    /\ user_seq = 3
    /\ tasks = {}
    /\ task_seq = 1
    /\ tokens = {}
    /\ now = 0
    /\ ticks = 0
    /\ nreq = 0
    /\ proc = [w \in Workers |-> Idle]

NextTok ==
    \/ Tick
    \/ Elapse
    \/ \E w \in Workers :
         \/ Login(w)
         \/ ReadUsersMe(w)

SpecTok == InitTok /\ [][NextTok]_vars

(* ----------------------------- tasks table ---------------------------- *)

Fields == {"title", "description", "priority", "status", "due_date"}

\* a JSON body of PUT /tasks/{id}: each key missing, null or a value
Body(title, description, priority, status, due_date) ==
    [title |-> title, description |-> description, priority |-> priority,
     status |-> status, due_date |-> due_date]

\* TaskUpdate(**body): every field is Optional with default None, so a
\* missing key and a null both parse to None
ParseTaskUpdate(body) ==
    [f \in Fields |-> IF body[f] = Absent THEN None ELSE body[f]]

\* TaskCreate(**body): description and due_date default to None, priority
\* to "medium"
ParseTaskCreate(body) ==
    [title |-> body.title,
     description |-> IF body.description = Absent THEN None
                     ELSE body.description,
     priority |-> IF body.priority = Absent THEN Some("medium")
                  ELSE body.priority,
     due_date |-> IF body.due_date = Absent THEN None ELSE body.due_date]

\* a WHERE clause that forgets the owner
RowsOfAnyOwner(task_id, user_id) == {t \in tasks : t.id = task_id}

\* WHERE id = %s AND user_id = %s
OwnRows(task_id, user_id) ==
    {t \in tasks : t.id = task_id /\ t.user_id = user_id}

\* an UPDATE that writes every field of the model, set or not
SetAllFields(row, upd, ts) ==
    [row EXCEPT !.title = upd.title, !.description = upd.description,
                !.priority = upd.priority, !.status = upd.status,
                !.due_date = upd.due_date, !.updated_at = ts]

\* SET <each field that is not None> = %s, updated_at = CURRENT_TIMESTAMP
SetFields(row, upd, ts) ==
    [row EXCEPT
       !.title = IF upd.title # None THEN upd.title ELSE @,
       !.description = IF upd.description # None THEN upd.description ELSE @,
       !.priority = IF upd.priority # None THEN upd.priority ELSE @,
       !.status = IF upd.status # None THEN upd.status ELSE @,
       !.due_date = IF upd.due_date # None THEN upd.due_date ELSE @,
       !.updated_at = ts]

\* ORDER BY created_at DESC: rows of one instant come in any order
Orderings(rows) ==
    {s \in [1..Cardinality(rows) -> rows] :
       /\ \A i, j \in DOMAIN s : i # j => s[i] # s[j]
       /\ \A i, j \in DOMAIN s : i < j => s[i].created_at >= s[j].created_at}

\* Python truthiness of an Optional[str] query parameter
Truthy(param) == param # None /\ param.v # ""

\* the filter applied whenever the parameter is given
FilterIfGiven(rows, field, param) ==
    IF param # None THEN {t \in rows : t[field] = param} ELSE rows

\* if param: query += " AND <field> = %s"
Filter(rows, field, param) ==
    IF Truthy(param) THEN {t \in rows : t[field] = param} ELSE rows

\* SUM(CASE WHEN <cond> THEN 1 ELSE 0 END): NULL over no rows
\* (matching: the rows for which the condition is true)
SqlSum(rows, matching) ==
    IF rows = {} THEN None ELSE Some(Cardinality(matching))

\* due_date < CURRENT_TIMESTAMP AND status != 'completed' (a comparison
\* with NULL is not true)
IsOverdue(t, ts) ==
    /\ t.due_date # None
    /\ t.due_date.v < ts
    /\ t.status # None
    /\ t.status.v # "completed"

\* the row of get_task_statistics for a user at CURRENT_TIMESTAMP = ts
Statistics(user_id, ts) ==
    LET rows == {t \in tasks : t.user_id = user_id}
        completed == {t \in rows : t.status = Some("completed")}
        in_progress == {t \in rows : t.status = Some("in_progress")}
        pending == {t \in rows : t.status = Some("pending")}
        high == {t \in rows : t.priority = Some("high")}
        overdue == {t \in rows : IsOverdue(t, ts)}
    IN  [total_tasks |-> Cardinality(rows),
         completed |-> SqlSum(rows, completed),
         in_progress |-> SqlSum(rows, in_progress),
         pending |-> SqlSum(rows, pending),
         high_priority |-> SqlSum(rows, high),
         overdue |-> SqlSum(rows, overdue)]

\* response_model=Task: a row passes, None does not validate
TaskResponse(code, row) ==
    IF row = None THEN Http500 ELSE [code |-> code, body |-> row.v]

(* ---------------------------- task requests --------------------------- *)

DueDates == {1}

CreateBodies ==
    {[title |-> Some("t1"), description |-> Absent, priority |-> Absent,
      due_date |-> Absent],
     [title |-> Some("t1"), description |-> Absent, priority |-> Some("high"),
      due_date |-> Some(CHOOSE d \in DueDates : TRUE)]}

UpdateBodies ==
    {Body(Absent, Absent, Absent, Absent, Absent),
     Body(Absent, Absent, Absent, Some("completed"), Absent),
     Body(Absent, Some("d1"), Absent, Absent, None),
     Body(Some("t2"), Some("d1"), Some("high"), Some("in_progress"), Some(0))}

\* status values the API accepts: TaskUpdate.status is any string
StatusBodies ==
    {Body(Absent, Absent, Absent, Some("completed"), Absent),
     Body(Absent, Absent, Absent, Some("archived"), Absent),
     Body(Absent, Absent, Absent, Some(""), Absent)}

StatusFilters == {None, Some(""), Some("pending")}
PriorityFilters == {None, Some("high")}

\* the ids a request may name: those drawn so far and the next one
TaskIds == 1..task_seq

\* an authenticated request arrives
StartTask(w, op, args) ==
    /\ Free(w)
    /\ nreq < MaxRequests
    /\ nreq' = nreq + 1
    /\ \E tok \in tokens : Authenticate(w, op, args, tok)
    /\ UNCHANGED <<users, user_seq, tasks, task_seq, tokens, now, ticks>>

StartCreateTask(w) ==
    /\ task_seq + InFlight("create_task") <= MaxTasks
    /\ \E b \in CreateBodies : StartTask(w, "create_task", [body |-> b])

StartGetTasks(w) ==
    \E s \in StatusFilters, p \in PriorityFilters :
       StartTask(w, "get_tasks", [status |-> s, priority |-> p])

StartGetTask(w) ==
    \E id \in TaskIds : StartTask(w, "get_task", [task_id |-> id])

StartUpdateTask(w, bodies) ==
    \E id \in TaskIds, b \in bodies :
       StartTask(w, "update_task", [task_id |-> id, body |-> b])

StartDeleteTask(w) ==
    \E id \in TaskIds : StartTask(w, "delete_task", [task_id |-> id])

StartGetTaskStatistics(w) ==
    StartTask(w, "get_task_statistics", [none |-> None])

Step(w, op, pc) == proc[w].pc = pc /\ proc[w].op = op

\* the row INSERT INTO tasks (user_id, title, description, priority,
\* due_date) makes: id, status, created_at and updated_at take their defaults
InsertedTask(id, user_id, task, ts) ==
    [id |-> id, user_id |-> user_id, title |-> task.title,
     description |-> task.description, priority |-> task.priority,
     status |-> Some("pending"), due_date |-> task.due_date,
     created_at |-> ts, updated_at |-> ts]

\* INSERT INTO tasks ... RETURNING *; commit; close
CreateTask(w) ==
    /\ Step(w, "create_task", "exec")
    /\ LET row == InsertedTask(task_seq, proc[w].user.v.id,
                               ParseTaskCreate(proc[w].args.body), now)
       IN  /\ tasks' = tasks \cup {row}
           /\ task_seq' = task_seq + 1
           /\ End(w, TaskResponse(201, Some(row)), 0)
    /\ UNCHANGED <<users, user_seq, tokens, now, ticks, nreq>>

\* SELECT * FROM tasks WHERE user_id = %s [AND status = %s]
\* [AND priority = %s] ORDER BY created_at DESC
GetTasks(w) ==
    /\ Step(w, "get_tasks", "exec")
    /\ LET own == {t \in tasks : t.user_id = proc[w].user.v.id}
           rows == Filter(Filter(own, "status", proc[w].args.status),
                          "priority", proc[w].args.priority)
       IN  \E s \in Orderings(rows) : End(w, [code |-> 200, body |-> s], 0)
    /\ UNCHANGED <<users, user_seq, tasks, task_seq, tokens, now, ticks, nreq>>

\* SELECT * FROM tasks WHERE id = %s AND user_id = %s
GetTask(w) ==
    /\ Step(w, "get_task", "exec")
    /\ LET rows == OwnRows(proc[w].args.task_id, proc[w].user.v.id)
       IN  IF rows = {} THEN End(w, Http404, 0)
           ELSE End(w, TaskResponse(200, Some(CHOOSE t \in rows : TRUE)), 0)
    /\ UNCHANGED <<users, user_seq, tasks, task_seq, tokens, now, ticks, nreq>>

\* the ownership check of update_task; the transaction, and with it
\* CURRENT_TIMESTAMP, starts at this first statement
UpdateTaskSelect(w) ==
    /\ Step(w, "update_task", "select")
    /\ IF OwnRows(proc[w].args.task_id, proc[w].user.v.id) = {}
       THEN End(w, Http404, 0)
       ELSE proc' = [proc EXCEPT ![w].pc = "update", ![w].open = 1,
                                 ![w].txn = Some(now)]
    /\ UNCHANGED <<users, user_seq, tasks, task_seq, tokens, now, ticks, nreq>>

\* UPDATE tasks SET ... WHERE id = %s AND user_id = %s RETURNING *;
\* fetchone() is None when no row matched; commit; close; return it
UpdateTask(w) ==
    /\ Step(w, "update_task", "update")
    /\ LET rows == OwnRows(proc[w].args.task_id, proc[w].user.v.id)
           upd == ParseTaskUpdate(proc[w].args.body)
           new == {SetFields(t, upd, proc[w].txn.v) : t \in rows}
       IN  /\ tasks' = (tasks \ rows) \cup new
           /\ End(w, TaskResponse(200, IF new = {} THEN None
                                      ELSE Some(CHOOSE t \in new : TRUE)), 0)
    /\ UNCHANGED <<users, user_seq, task_seq, tokens, now, ticks, nreq>>

\* DELETE FROM tasks WHERE id = %s AND user_id = %s RETURNING id
DeleteTask(w) ==
    /\ Step(w, "delete_task", "exec")
    /\ LET rows == OwnRows(proc[w].args.task_id, proc[w].user.v.id)
       IN  /\ tasks' = tasks \ rows
           /\ IF rows = {} THEN End(w, Http404, 0)
              ELSE End(w, [code |-> 204], 0)
    /\ UNCHANGED <<users, user_seq, task_seq, tokens, now, ticks, nreq>>

\* the aggregate query; the row is returned as it is
GetTaskStatistics(w) ==
    /\ Step(w, "get_task_statistics", "exec")
    /\ End(w, [code |-> 200,
               body |-> Statistics(proc[w].user.v.id, now)], 0)
    /\ UNCHANGED <<users, user_seq, tasks, task_seq, tokens, now, ticks, nreq>>

\* ann and bob have registered and logged in, and ann has created a task
\* with a title alone
InitTask ==
    /\ users = RegisteredUsers
    /\ user_seq = 3
    /\ tasks = {InsertedTask(1, 1,
                    ParseTaskCreate([title |-> Some("t1"),
                                     description |-> Absent,
                                     priority |-> Absent,
                                     due_date |-> Absent]), 0)}
    /\ task_seq = 2
    /\ tokens = {create_access_token([sub |-> u.id],
                     Minutes(ACCESS_TOKEN_EXPIRE_MINUTES), 0) : u \in users}
    /\ now = 0
    /\ ticks = 0
    /\ nreq = 0
    /\ proc = [w \in Workers |-> Idle]

\* single tasks: create, read, update and delete
NextTask ==
    \/ Tick
    \/ \E w \in Workers :
         \/ StartCreateTask(w)
         \/ StartGetTask(w)
         \/ StartUpdateTask(w, UpdateBodies)
         \/ StartDeleteTask(w)
         \/ CreateTask(w)
         \/ GetTask(w)
         \/ UpdateTaskSelect(w)
         \/ UpdateTask(w)
         \/ DeleteTask(w)

SpecTask == InitTask /\ [][NextTask]_vars

\* listings and statistics
NextList ==
    \/ Tick
    \/ \E w \in Workers :
         \/ StartCreateTask(w)
         \/ StartUpdateTask(w, StatusBodies)
         \/ StartGetTasks(w)
         \/ StartGetTaskStatistics(w)
         \/ CreateTask(w)
         \/ UpdateTaskSelect(w)
         \/ UpdateTask(w)
         \/ GetTasks(w)
         \/ GetTaskStatistics(w)

SpecList == InitTask /\ [][NextList]_vars

(* ------------------------------- claims ------------------------------- *)

\* worker w takes a step of request op
Acts(w, op) == proc'[w] # proc[w] /\ proc'[w].op = op

\* the request of worker w ends in this step
Ends(w, op) == Acts(w, op) /\ proc'[w].pc = "done"

\* C1: no two rows of the users table share an email, and no two share a
\* username, in any reachable state, however register requests interleave.
C1_UsersUnique ==
    \A u1, u2 \in users :
       (u1.email = u2.email \/ u1.username = u2.username) => u1 = u2

\* C1 witness: a registration that raced another for the same email passed
\* the existence check, was stopped by the INSERT, and the email has one row.
C1_Witness ==
    \E w \in Workers :
       /\ proc[w].pc = "done"
       /\ proc[w].op = "register"
       /\ proc[w].resp.code = 500
       /\ Cardinality({u \in users : u.email = proc[w].args.email}) = 1

\* C2: a register request that ends while its email or username belongs to
\* a row of the users table is answered 400 and leaves the table unchanged,
\* also when it passed the existence check before the other request's INSERT.
C2_ConflictIs400 ==
    [][\A w \in Workers :
         (/\ Ends(w, "register")
          /\ \E u \in users : \/ u.email = proc'[w].args.email
                              \/ u.username = proc'[w].args.username)
         => (proc'[w].resp.code = 400 /\ users' = users)]_vars

\* C9: no request ends with a connection still open.
C9_ConnectionsReleased ==
    \A w \in Workers : proc[w].pc = "done" => proc[w].open = 0

\* C8: a token issued by login is resolved by get_current_user to its
\* subject's user at every instant before its expiry (its "exp" claim), is
\* rejected with 401 at every instant after it, and is never resolved to
\* another user.
C8_TokenUntilExpiry ==
    [][\A w \in Workers :
         (Ends(w, "me") /\ proc'[w].args.token \in tokens) =>
            LET tok == proc'[w].args.token
                r == proc'[w]
            IN  /\ now < tok.exp =>
                     /\ r.user # None
                     /\ r.resp.code = 200
                     /\ r.resp.body.id = tok.sub
                /\ now > tok.exp => r.resp = Http401
                /\ r.user # None =>
                     /\ r.user.v.id = tok.sub
                     /\ r.user.v \in users]_vars

\* C8 witness: one issued token was resolved to its subject by one request
\* and rejected with 401 by another.
C8_Witness ==
    \E w1, w2 \in Workers :
       /\ proc[w1].pc = "done" /\ proc[w1].op = "me"
       /\ proc[w2].pc = "done" /\ proc[w2].op = "me"
       /\ proc[w1].args.token \in tokens
       /\ proc[w2].args.token = proc[w1].args.token
       /\ proc[w1].resp.code = 200
       /\ proc[w1].user.v.id = proc[w1].args.token.sub
       /\ proc[w2].resp.code = 401

IsTaskOp(op) == op \in {"get_task", "update_task", "delete_task"}

\* the task the request names exists and belongs to another user
NotOwner(p) ==
    \E t \in tasks : t.id = p.args.task_id /\ t.user_id # p.user.v.id

\* C3: get_task, update_task and delete_task by an authenticated user who
\* does not own the task end like the same request on an id that names no
\* task, with 404 "Task not found", and leave the tasks table as it was.
C3_NotOwnerIsNotFound ==
    [][\A w \in Workers :
         LET p == proc[w]
         IN  /\ (IsTaskOp(p.op) /\ Acts(w, p.op) /\ ~Free(w) /\ NotOwner(p))
                => /\ proc'[w].pc = "done"
                   /\ proc'[w].resp = Http404
                   /\ tasks' = tasks
             /\ (/\ IsTaskOp(p.op) /\ Acts(w, p.op)
                 /\ p.pc \in {"exec", "select"}
                 /\ \A t \in tasks : t.id # p.args.task_id)
                => /\ proc'[w].pc = "done"
                   /\ proc'[w].resp = Http404
                   /\ tasks' = tasks]_vars

\* C3 witness: an update_task and a delete_task by users who do not own the
\* tasks they name have ended with 404 and the tasks are still in the table.
C3_Witness ==
    \E w1, w2 \in Workers :
       /\ proc[w1].pc = "done" /\ proc[w1].op = "update_task"
       /\ proc[w2].pc = "done" /\ proc[w2].op = "delete_task"
       /\ proc[w1].user # None /\ NotOwner(proc[w1])
       /\ proc[w2].user # None /\ NotOwner(proc[w2])
       /\ proc[w1].resp = Http404
       /\ proc[w2].resp = Http404

\* the frame of a successful UPDATE by worker w: new is the row returned,
\* old the row before, unsupplied the body values that leave a field alone
UpdateFrame(w, unsupplied) ==
    LET p == proc[w]
        b == p.args.body
        new == proc'[w].resp.body
        old == CHOOSE t \in tasks : t.id = p.args.task_id
    IN  /\ new \in tasks'
        /\ tasks' \ {new} = tasks \ {old}
        /\ \A f \in Fields : new[f] = IF b[f] \notin unsupplied THEN b[f] ELSE old[f]
        /\ new.id = old.id
        /\ new.user_id = old.user_id
        /\ new.created_at = old.created_at
        /\ new.updated_at = p.txn.v
        /\ p.txn.v <= now

UpdateSucceeds(w) ==
    /\ proc[w].pc = "update"
    /\ Ends(w, "update_task")
    /\ proc'[w].resp.code = 200

\* C4 as stated: a successful update_task sets every field the body holds
\* to the value it holds, leaves the others, id, user_id and created_at
\* unchanged, and sets updated_at to the current timestamp.
C4_SetsEverySuppliedField ==
    [][\A w \in Workers :
         UpdateSucceeds(w) => UpdateFrame(w, {Absent})]_vars

\* C4 amended: a successful update_task sets every field the body holds
\* with a value other than null to that value, leaves the fields that are
\* missing or null, id, user_id and created_at unchanged, and sets
\* updated_at to the transaction's current timestamp; with no field
\* supplied only updated_at changes.
C4_SetsEveryNonNullField ==
    [][\A w \in Workers :
         UpdateSucceeds(w) => UpdateFrame(w, {Absent, None})]_vars

\* C4 witness: an update with status "completed" alone and an update with
\* no field have both succeeded.
C4_Witness ==
    \E w1, w2 \in Workers :
       /\ proc[w1].pc = "done" /\ proc[w1].op = "update_task"
       /\ proc[w2].pc = "done" /\ proc[w2].op = "update_task"
       /\ proc[w1].args.body =
            Body(Absent, Absent, Absent, Some("completed"), Absent)
       /\ proc[w2].args.body = Body(Absent, Absent, Absent, Absent, Absent)
       /\ proc[w1].resp.code = 200
       /\ proc[w1].resp.body.status = Some("completed")
       /\ proc[w1].resp.body.title = Some("t1")
       /\ proc[w2].resp.code = 200

\* C10: an authenticated update_task ends with 200 and the updated task or
\* with 404, also when the task is deleted between its ownership check and
\* its UPDATE.
C10_UpdateEnds200Or404 ==
    \A w \in Workers :
       (proc[w].pc = "done" /\ proc[w].op = "update_task"
        /\ proc[w].user # None)
       => \/ proc[w].resp.code = 200 /\ proc[w].resp.body.id = proc[w].args.task_id
          \/ proc[w].resp = Http404

\* C5: the summary satisfies pending + in_progress + completed =
\* total_tasks for every user, a user with no tasks included.
C5_StatisticsAddUp ==
    \A w \in Workers :
       (proc[w].pc = "done" /\ proc[w].op = "get_task_statistics"
        /\ proc[w].resp.code = 200)
       => LET b == proc[w].resp.body
          IN  /\ b.pending # None
              /\ b.in_progress # None
              /\ b.completed # None
              /\ b.pending.v + b.in_progress.v + b.completed.v = b.total_tasks

\* C6: the overdue count of the summary is the number of the user's tasks
\* whose due date is before the current instant and whose status is not
\* completed.
C6_OverdueCount ==
    [][\A w \in Workers :
         (proc[w].pc = "exec" /\ Ends(w, "get_task_statistics")) =>
            proc'[w].resp.body.overdue =
               Some(Cardinality({t \in tasks :
                                   /\ t.user_id = proc[w].user.v.id
                                   /\ t.due_date # None
                                   /\ t.due_date.v < now
                                   /\ t.status # Some("completed")}))]_vars

\* C7: get_tasks with a status filter returns exactly the caller's tasks
\* with that status (and, with a priority filter too, with that priority),
\* each once, newest-created first, for every filter value.
C7_FilterIsExact ==
    [][\A w \in Workers :
         (/\ proc[w].pc = "exec" /\ Ends(w, "get_tasks")
          /\ proc[w].args.status # None) =>
            LET a == proc[w].args
                s == proc'[w].resp.body
                own == {t \in tasks : t.user_id = proc[w].user.v.id}
            IN  /\ {s[i] : i \in DOMAIN s} =
                     FilterIfGiven({t \in own : t.status = a.status},
                                   "priority", a.priority)
                /\ \A i, j \in DOMAIN s : i # j => s[i] # s[j]
                /\ \A i, j \in DOMAIN s :
                      i < j => s[i].created_at >= s[j].created_at]_vars

====
